---- MODULE Spec2Model ----
(***************************************************************************)
(* Verification model of expdespy: the compact-letter-display assignment   *)
(* (utils.assign_letters), the interaction unfolding of the factorial and  *)
(* split-plot designs, the significance markers, the post-hoc strategy     *)
(* loader with the pairwise t-test, run_compact_letters_display of the     *)
(* strategies, and the construction and use of the designs.                *)
(*                                                                         *)
(* Numbers: p-values and alpha are kept in hundredths (5 is 0.05).         *)
(* Group labels are naturals: label k is the k-th label in the order       *)
(* Python's sorted() gives the labels, so sorted() is ascending order.     *)
(***************************************************************************)
EXTENDS Integers, Sequences, FiniteSets, TLC

VARIABLES pc, df_post_hoc, alpha, order_arg, data, param,
          order, draft, sets, cld, error

cldvars == <<pc, df_post_hoc, alpha, order_arg, data, param,
             order, draft, sets, cld, error>>

\* a factorial or split-plot design and one call of its unfold_interactions
VARIABLES design, factors, design_data, anova_p, fit_ok, posthoc, print_results,
          fails, upc, outcome, branches, idx, result, key, calls, reports, uerror,
          max_interaction, terms, table

uvars == <<design, factors, design_data, anova_p, fit_ok, posthoc, print_results,
           fails, upc, outcome, branches, idx, result, key, calls, reports, uerror,
           max_interaction, terms, table>>

\* one call of a significance_marker
VARIABLES mk_impl, mk_p, mk_out, mk_pc

mvars == <<mk_impl, mk_p, mk_out, mk_pc>>

\* one call of PostHocLoader.create and of the run of the strategy it built;
\* ph_values is the values column, ph_dtype the type of the labels of the
\* treatments column, ph_pvalue the p-value the library computes for each
\* pair of treatments, ph_cld the table of run_compact_letters_display
VARIABLES test_name, ph_data, ph_alpha, instance, ph_df, ph_error, ph_pc,
          ph_values, ph_dtype, ph_pvalue, ph_cld

phvars == <<test_name, ph_data, ph_alpha, instance, ph_df, ph_error, ph_pc,
            ph_values, ph_dtype, ph_pvalue, ph_cld>>

\* the caller's dataset, the designs built from it and what was run on them
VARIABLES frames, designs, oplog, nmut

dvars == <<frames, designs, oplog, nmut>>

xvars == <<mvars, phvars, dvars>>

vars == <<cldvars, uvars, xvars>>

(***************************************************************************)
(* Bounds of the explored inputs.                                          *)
(***************************************************************************)
MaxGroups == 4
MaxRecords == 3
MaxRows == 4
BigGroups == 27
MaxMissing == 1
MaxFailures == 1

DefaultAlpha == 5

\* no strategy instance
NoInstance == [class |-> "none", data |-> << >>, values_column |-> "", treatments_column |-> "",
               alpha |-> 0]

Labels == 1..MaxGroups
Alphas == {5, 9}
PVals == {1, 5}
Vals == {0, 1, 4}
DataLabels == {1, 2, 3}

\* string.ascii_lowercase
letters == << "a", "b", "c", "d", "e", "f", "g", "h", "i", "j", "k", "l", "m",
              "n", "o", "p", "q", "r", "s", "t", "u", "v", "w", "x", "y", "z" >>

(***************************************************************************)
(* Helpers on sequences.                                                   *)
(***************************************************************************)
Range(s) == {s[i] : i \in DOMAIN s}

Perms(S) == {s \in [1..Cardinality(S) -> S] : \A i, j \in 1..Cardinality(S) : i # j => s[i] # s[j]}

\* sorted(set(...)) over labels
RECURSIVE Sorted(_)
Sorted(S) ==
    IF S = {} THEN << >>
    ELSE LET m == CHOOSE x \in S : \A y \in S : x <= y
         IN  << m >> \o Sorted(S \ {m})

(***************************************************************************)
(* assign_letters.is_significant: the first record matching the pair in    *)
(* either direction, compared strictly against alpha; no record, not       *)
(* significant.                                                            *)
(***************************************************************************)
\* a missing p-value (None, np.nan): to_numeric keeps it as NaN
NaN == -1

\* a p-value that is not a number, such as the text "abc"
NotNumeric == -2

\* pd.to_numeric accepts the entry
Coercible(p) == p # NotNumeric

\* the entries of the p-value column as the caller may hand them
RawPVals == PVals \cup {NaN, NotNumeric}

\* p < a on floats: every comparison with NaN is False
Lt(p, a) == p # NaN /\ p < a

IsSignificantOneWay(lv1, lv2, df, a) ==
    LET match == {r \in df : r.group1 = lv1 /\ r.group2 = lv2}
    IN  match # {} /\ Lt((CHOOSE r \in match : TRUE).p, a)

IsSignificantUnlessMissing(lv1, lv2, df, a) ==
    LET match == {r \in df : \/ (r.group1 = lv1 /\ r.group2 = lv2)
                             \/ (r.group1 = lv2 /\ r.group2 = lv1)}
    IN  match = {} \/ Lt((CHOOSE r \in match : TRUE).p, a)

is_significant(lv1, lv2, df, a) ==
    LET match == {r \in df : \/ (r.group1 = lv1 /\ r.group2 = lv2)
                             \/ (r.group1 = lv2 /\ r.group2 = lv1)}
    IN  match # {} /\ Lt((CHOOSE r \in match : TRUE).p, a)

(***************************************************************************)
(* The per-group statistic of the raw dataset, as a fraction num/den.      *)
(***************************************************************************)
RECURSIVE ValuesOf(_, _, _)
ValuesOf(rows, g, k) ==
    IF k > Len(rows) THEN << >>
    ELSE IF rows[k].grupo = g THEN << rows[k].valor >> \o ValuesOf(rows, g, k + 1)
         ELSE ValuesOf(rows, g, k + 1)

RECURSIVE SumSeq(_)
SumSeq(s) == IF s = << >> THEN 0 ELSE Head(s) + SumSeq(Tail(s))

\* the value at rank k (1 is the smallest) of a sequence of numbers
Ranked(s, k) ==
    CHOOSE v \in Range(s) :
        /\ Cardinality({i \in DOMAIN s : s[i] < v}) < k
        /\ Cardinality({i \in DOMAIN s : s[i] <= v}) >= k

GroupMean(rows, g) ==
    LET v == ValuesOf(rows, g, 1) IN [num |-> SumSeq(v), den |-> Len(v)]

GroupMedian(rows, g) ==
    LET v == ValuesOf(rows, g, 1)
        n == Len(v)
    IN  IF n % 2 = 1 THEN [num |-> Ranked(v, (n + 1) \div 2), den |-> 1]
        ELSE [num |-> Ranked(v, n \div 2) + Ranked(v, n \div 2 + 1), den |-> 2]

GroupStat(rows, g, useMean) ==
    IF useMean THEN GroupMean(rows, g) ELSE GroupMedian(rows, g)

FracLeq(x, y) == x.num * y.den <= y.num * x.den

\* group_stats.sort_values(ascending=...).index.tolist(): every order of the
\* groups of the data that is monotone in the statistic (ties in any order)
SortByStat(rows, useMean, ascending) ==
    LET G == {rows[i].grupo : i \in DOMAIN rows}
    IN  {s \in Perms(G) :
            \A i, j \in DOMAIN s : i < j =>
                IF ascending
                THEN FracLeq(GroupStat(rows, s[i], useMean), GroupStat(rows, s[j], useMean))
                ELSE FracLeq(GroupStat(rows, s[j], useMean), GroupStat(rows, s[i], useMean))}

(***************************************************************************)
(* The resolved group order: the set of orders the call can walk.          *)
(***************************************************************************)
NeedsData(oa) == oa.kind \in {"ascending", "descending"}

ResolveOrderSortsList(oa, df, dat, useMean) ==
    IF oa.kind = "none"
    THEN {Sorted({r.group1 : r \in df} \cup {r.group2 : r \in df})}
    ELSE IF NeedsData(oa)
    THEN SortByStat(dat.rows, useMean, oa.kind = "ascending")
    ELSE {Sorted(Range(oa.list))}

ResolveOrderAlwaysAscending(oa, df, dat, useMean) ==
    IF oa.kind = "none"
    THEN {Sorted({r.group1 : r \in df} \cup {r.group2 : r \in df})}
    ELSE IF NeedsData(oa)
    THEN SortByStat(dat.rows, useMean, TRUE)
    ELSE {oa.list}

ResolveOrder(oa, df, dat, useMean) ==
    IF oa.kind = "none"
    THEN {Sorted({r.group1 : r \in df} \cup {r.group2 : r \in df})}
    ELSE IF NeedsData(oa)
    THEN SortByStat(dat.rows, useMean, oa.kind = "ascending")
    ELSE {oa.list}

(***************************************************************************)
(* The compatibility set started by l1: walk the whole order, add l2 when  *)
(* it differs from l1 and is significant against neither l1 nor any        *)
(* member already in the set.                                              *)
(***************************************************************************)
RECURSIVE ExtendStartOnly(_, _, _, _, _, _)
ExtendStartOnly(s, l1, ord, k, df, a) ==
    IF k > Len(ord) THEN s
    ELSE LET l2 == ord[k]
             add == l1 # l2 /\ ~is_significant(l1, l2, df, a)
         IN  ExtendStartOnly(IF add THEN s \cup {l2} ELSE s, l1, ord, k + 1, df, a)

RECURSIVE ExtendSkipsLast(_, _, _, _, _, _)
ExtendSkipsLast(s, l1, ord, k, df, a) ==
    IF k >= Len(ord) THEN s
    ELSE LET l2 == ord[k]
             add == /\ l1 # l2
                    /\ ~is_significant(l1, l2, df, a)
                    /\ \A m \in s : ~is_significant(m, l2, df, a)
         IN  ExtendSkipsLast(IF add THEN s \cup {l2} ELSE s, l1, ord, k + 1, df, a)

RECURSIVE Extend(_, _, _, _, _, _)
Extend(s, l1, ord, k, df, a) ==
    IF k > Len(ord) THEN s
    ELSE LET l2 == ord[k]
             add == /\ l1 # l2
                    /\ ~is_significant(l1, l2, df, a)
                    /\ \A m \in s : ~is_significant(m, l2, df, a)
         IN  Extend(IF add THEN s \cup {l2} ELSE s, l1, ord, k + 1, df, a)

BuildDraftEmptyStart(ord, df, a) ==
    [i \in DOMAIN ord |-> Extend({}, ord[i], ord, 1, df, a)]

BuildDraftLaterOnly(ord, df, a) ==
    [i \in DOMAIN ord |-> Extend({ord[i]}, ord[i], ord, i + 1, df, a)]

\* draft[i] for every position i of the order
BuildDraft(ord, df, a) ==
    [i \in DOMAIN ord |-> Extend({ord[i]}, ord[i], ord, 1, df, a)]

RECURSIVE DedupKeepsAll(_, _, _)
DedupKeepsAll(d, k, acc) ==
    IF k > Len(d) THEN acc ELSE DedupKeepsAll(d, k + 1, Append(acc, d[k]))

\* [sets.append(s) for s in draft.values() if s not in sets]
RECURSIVE Dedup(_, _, _)
Dedup(d, k, acc) ==
    IF k > Len(d) THEN acc
    ELSE Dedup(d, k + 1, IF d[k] \in Range(acc) THEN acc ELSE Append(acc, d[k]))

RECURSIVE LettersOf(_, _, _)
LettersOf(lt, ss, j) ==
    IF j > Len(ss) THEN << >>
    ELSE (IF lt \in ss[j] THEN << letters[j] >> ELSE << >>) \o LettersOf(lt, ss, j + 1)

BuildCld(ord, ss) ==
    [i \in DOMAIN ord |-> [Group |-> ord[i], Letters |-> LettersOf(ord[i], ss, 1)]]

(***************************************************************************)
(* The inputs of a call.                                                   *)
(***************************************************************************)
Pairs(L) == {pr \in L \X L : pr[1] < pr[2]}

Rec(pr, v) ==
    IF v[1] = "fwd" THEN [group1 |-> pr[1], group2 |-> pr[2], p |-> v[2]]
    ELSE [group1 |-> pr[2], group2 |-> pr[1], p |-> v[2]]

\* df is a comparison set over the labels L holding at most k records, each
\* unordered pair stored once, in one of the directions dirs
IsComparisonSet(df, L, k, dirs, ps) ==
    \E S \in {T \in SUBSET Pairs(L) : Cardinality(T) <= k} :
        \E f \in [S -> dirs \X ps] : df = {Rec(pr, f[pr]) : pr \in S}

\* explicit order lists: the groups of any subset of L in any order
OrderLists(L) == UNION {Perms(S) : S \in SUBSET L}

Row(c) == [grupo |-> c[1], valor |-> c[2]]

RowLeq(x, y) == x.grupo < y.grupo \/ (x.grupo = y.grupo /\ x.valor <= y.valor)

\* raw datasets of at most n rows (rows listed by group, then value)
Datasets(L, n) ==
    UNION { {s \in [1..m -> {Row(c) : c \in L \X Vals}] :
                \A i \in 1..(m - 1) : RowLeq(s[i], s[i + 1])} : m \in 0..n }

NoOrder == [kind |-> "none", list |-> << >>]
NoData == [given |-> FALSE, rows |-> << >>]

\* order=None, every comparison set
InitDefaultOrder ==
    /\ IsComparisonSet(df_post_hoc, Labels, MaxRecords, {"fwd", "rev"}, PVals)
    /\ alpha \in Alphas
    /\ order_arg = NoOrder
    /\ data = NoData
    /\ param = TRUE

\* order=None, a complete comparison set: every pair of the groups compared
InitCompleteSet ==
    /\ \E f \in [Pairs(Labels) -> PVals] :
          df_post_hoc = {Rec(pr, <<"fwd", f[pr]>>) : pr \in Pairs(Labels)}
    /\ alpha \in Alphas
    /\ order_arg = NoOrder
    /\ data = NoData
    /\ param = TRUE

\* order=[...]
InitExplicitOrder ==
    /\ IsComparisonSet(df_post_hoc, Labels, MaxRecords - 2, {"fwd"}, {1})
    /\ alpha = 5
    /\ order_arg \in {[kind |-> "list", list |-> l] : l \in OrderLists(Labels)}
    /\ data = NoData
    /\ param = TRUE

\* order="ascending"/"descending", with and without the raw dataset
InitStatOrder ==
    /\ IsComparisonSet(df_post_hoc, DataLabels, 1, {"fwd"}, {1})
    /\ alpha = 5
    /\ order_arg \in {[kind |-> k, list |-> << >>] : k \in {"ascending", "descending"}}
    /\ data \in {NoData} \cup {[given |-> TRUE, rows |-> r] :
                                 r \in Datasets(DataLabels, MaxRows)}
    /\ param \in BOOLEAN

\* many groups, all pairwise different
InitManyGroups ==
    /\ \E n \in {Len(letters), BigGroups} :
          df_post_hoc = {[group1 |-> pr[1], group2 |-> pr[2], p |-> 1] : pr \in Pairs(1..n)}
    /\ alpha = 5
    /\ order_arg = NoOrder
    /\ data = NoData
    /\ param = TRUE

\* no significance_marker call is under way
MarkerIdle == mk_impl = "none" /\ mk_p = 0 /\ mk_out = "" /\ mk_pc = "idle"

\* no post-hoc strategy is being created
PosthocIdle ==
    /\ test_name = << >> /\ ph_data = << >> /\ ph_alpha = DefaultAlpha
    /\ instance = NoInstance /\ ph_df = << >> /\ ph_error = "none" /\ ph_pc = "idle"
    /\ ph_values = << >> /\ ph_dtype = "int" /\ ph_pvalue = << >> /\ ph_cld = << >>

\* no dataset is held
DesignsIdle == frames = << >> /\ designs = << >> /\ oplog = << >> /\ nmut = 0

OthersIdle == MarkerIdle /\ PosthocIdle /\ DesignsIdle

\* max_interaction=None
None == [given |-> FALSE, k |-> 0]

\* order=None, comparison sets with missing or non-numeric p-values
InitMalformed ==
    /\ IsComparisonSet(df_post_hoc, Labels, MaxRecords, {"fwd"}, RawPVals)
    /\ \E r \in df_post_hoc : r.p \in {NaN, NotNumeric}
    /\ alpha \in Alphas
    /\ order_arg = NoOrder
    /\ data = NoData
    /\ param = TRUE

\* no design is under analysis
UnfoldIdle ==
    /\ design = "none" /\ factors = << >> /\ design_data = {} /\ anova_p = << >>
    /\ fit_ok = TRUE /\ posthoc = "tukey" /\ print_results = FALSE /\ fails = {}
    /\ upc = "idle" /\ outcome = "none" /\ branches = << >> /\ idx = 1
    /\ result = [anova |-> FALSE, main_effects |-> {}, interactions |-> {}]
    /\ key = << >> /\ calls = {} /\ reports = {} /\ uerror = "none"
    /\ max_interaction = None /\ terms = << >> /\ table = << >>

CallState ==
    /\ pc = "call"
    /\ order = << >>
    /\ draft = << >>
    /\ sets = << >>
    /\ cld = << >>
    /\ error = "none"

InitCLDMalformed ==
    /\ UnfoldIdle
    /\ OthersIdle
    /\ CallState
    /\ InitMalformed

InitCLD ==
    /\ UnfoldIdle
    /\ OthersIdle
    /\ CallState
    /\ \/ InitDefaultOrder
       \/ InitCompleteSet
       \/ InitExplicitOrder
       \/ InitStatOrder
       \/ InitManyGroups

(***************************************************************************)
(* assign_letters, one call.                                               *)
(***************************************************************************)
Inputs == <<df_post_hoc, alpha, order_arg, data, param>>

AllCoercible(df) == \A r \in df : Coercible(r.p)

\* df_post_hoc[P].apply(pd.to_numeric) meets an entry that is not a number:
\* ValueError
AssignLettersNotNumeric ==
    /\ pc = "call"
    /\ ~AllCoercible(df_post_hoc)
    /\ pc' = "raise"
    /\ error' = "ValueError"
    /\ UNCHANGED <<Inputs, order, draft, sets, cld, uvars, xvars>>

\* order is "ascending"/"descending" and data is missing: ValueError
AssignLettersNoData ==
    /\ pc = "call"
    /\ AllCoercible(df_post_hoc)
    /\ NeedsData(order_arg) /\ ~data.given
    /\ pc' = "raise"
    /\ error' = "ValueError"
    /\ UNCHANGED <<Inputs, order, draft, sets, cld, uvars, xvars>>

\* more distinct sets than letters: letters[j] raises IndexError
AssignLettersNoLetter ==
    /\ pc = "call"
    /\ AllCoercible(df_post_hoc)
    /\ ~(NeedsData(order_arg) /\ ~data.given)
    /\ \E ord \in ResolveOrder(order_arg, df_post_hoc, data, param) :
          LET d == BuildDraft(ord, df_post_hoc, alpha)
              ss == Dedup(d, 1, << >>)
          IN  /\ Len(ss) > Len(letters)
              /\ order' = ord
              /\ draft' = d
              /\ sets' = ss
    /\ pc' = "raise"
    /\ error' = "IndexError"
    /\ UNCHANGED <<Inputs, cld, uvars, xvars>>

AssignLetters ==
    /\ pc = "call"
    /\ AllCoercible(df_post_hoc)
    /\ ~(NeedsData(order_arg) /\ ~data.given)
    /\ \E ord \in ResolveOrder(order_arg, df_post_hoc, data, param) :
          LET d == BuildDraft(ord, df_post_hoc, alpha)
              ss == Dedup(d, 1, << >>)
          IN  /\ Len(ss) <= Len(letters)
              /\ order' = ord
              /\ draft' = d
              /\ sets' = ss
              /\ cld' = BuildCld(ord, ss)
    /\ pc' = "return"
    /\ UNCHANGED <<Inputs, error, uvars, xvars>>

NextCLD == AssignLetters \/ AssignLettersNoData \/ AssignLettersNoLetter

SpecCLD == InitCLD /\ [][NextCLD]_vars

\* the calls whose comparison set holds a missing or non-numeric p-value
NextCLDMalformed == AssignLetters \/ AssignLettersNotNumeric

SpecCLDMalformed == InitCLDMalformed /\ [][NextCLDMalformed]_vars

(***************************************************************************)
(* Properties of assign_letters.                                           *)
(***************************************************************************)
Returned == pc = "return"

RowGroups == [i \in DOMAIN cld |-> cld[i].Group]

ShareLetter(i, j) == Range(cld[i].Letters) \cap Range(cld[j].Letters) # {}

RecordsOf(g, h) ==
    {r \in df_post_hoc : \/ (r.group1 = g /\ r.group2 = h)
                         \/ (r.group1 = h /\ r.group2 = g)}

\* C1: two groups that share a letter in the returned CLD and have a record
\* in the comparison set (either direction) have p >= alpha in that record.
CLDSoundness ==
    Returned =>
        \A i, j \in DOMAIN cld :
            (cld[i].Group # cld[j].Group /\ ShareLetter(i, j)) =>
                \A r \in RecordsOf(cld[i].Group, cld[j].Group) : r.p >= alpha

CLDSoundnessWitness ==
    /\ Returned
    /\ \E i, j \in DOMAIN cld :
          /\ cld[i].Group # cld[j].Group
          /\ ShareLetter(i, j)
          /\ RecordsOf(cld[i].Group, cld[j].Group) # {}
    /\ \E i, j \in DOMAIN cld :
          /\ ~ShareLetter(i, j)
          /\ \E r \in RecordsOf(cld[i].Group, cld[j].Group) : r.p < alpha

EveryGroupLettered ==
    /\ Returned
    /\ \A i \in DOMAIN order :
          \E k \in DOMAIN cld : cld[k].Group = order[i] /\ cld[k].Letters # << >>

\* C2 as stated: whatever the comparison set and the number of groups, once
\* the order is resolved the call returns a CLD in which every group of the
\* order has a non-empty letter string.
CLDCompletenessAnySize ==
    (pc # "call" /\ error # "ValueError") => EveryGroupLettered

\* C2 amended: the same, while the distinct compatibility sets are at most
\* as many as the letters (26).
CLDCompleteness ==
    (pc # "call" /\ error # "ValueError" /\ Len(sets) <= Len(letters))
        => EveryGroupLettered

CLDCompletenessWitness ==
    /\ Returned
    /\ Len(order) = Len(letters)
    /\ Len(sets) = Len(letters)
    /\ \A i \in DOMAIN cld : Len(cld[i].Letters) = 1

NotSignificantRecord(g, h) ==
    /\ RecordsOf(g, h) # {}
    /\ \A r \in RecordsOf(g, h) : r.p >= alpha

GroupsShare(g, h) ==
    \E i, j \in DOMAIN cld : cld[i].Group = g /\ cld[j].Group = h /\ ShareLetter(i, j)

\* a group of the order that is compatible with g and significant against h
Blocked(g, h) ==
    \E z \in Range(order) :
        /\ ~is_significant(z, g, df_post_hoc, alpha)
        /\ is_significant(z, h, df_post_hoc, alpha)

\* C3 as stated: any two groups of the order whose comparison is not
\* significant (p >= alpha) share at least one letter.
CLDConverse ==
    Returned =>
        \A g, h \in Range(order) :
            (g # h /\ NotSignificantRecord(g, h)) => GroupsShare(g, h)

\* C3 amended: they share a letter unless each of the two has a companion
\* (a group not significantly different from it) that is significantly
\* different from the other.
CLDConverseUnblocked ==
    Returned =>
        \A g, h \in Range(order) :
            (g # h /\ NotSignificantRecord(g, h) /\ ~(Blocked(g, h) /\ Blocked(h, g)))
                => GroupsShare(g, h)

CLDConverseWitness ==
    /\ Returned
    /\ \E g, h \in Range(order) :
          /\ g # h
          /\ NotSignificantRecord(g, h)
          /\ Blocked(h, g) /\ ~Blocked(g, h)
          /\ GroupsShare(g, h)

\* the comparison set with every record stored smaller label first
Canonical(df) ==
    {IF r.group1 < r.group2 THEN r
     ELSE [group1 |-> r.group2, group2 |-> r.group1, p |-> r.p] : r \in df}

\* C4: the lookup answers the same for (A,B) and (B,A), and the returned CLD
\* is the one the call gives for the same records stored smaller label
\* first, so all the ways of storing the records give the same CLD.
CLDSymmetry ==
    /\ \A r \in df_post_hoc :
          is_significant(r.group1, r.group2, df_post_hoc, alpha)
              = is_significant(r.group2, r.group1, df_post_hoc, alpha)
    /\ Returned =>
          /\ order \in ResolveOrder(order_arg, Canonical(df_post_hoc), data, param)
          /\ sets = Dedup(BuildDraft(order, Canonical(df_post_hoc), alpha), 1, << >>)
          /\ cld = BuildCld(order, sets)

CLDSymmetryWitness ==
    /\ Returned
    /\ \E r, q \in df_post_hoc :
          /\ r.group1 > r.group2 /\ r.p < alpha
          /\ q.group1 < q.group2 /\ q.p < alpha
    /\ \E i, j \in DOMAIN cld : i # j /\ ShareLetter(i, j)

DataGroups == {data.rows[i].grupo : i \in DOMAIN data.rows}

MeanLeq(g, h) == FracLeq(GroupMean(data.rows, g), GroupMean(data.rows, h))

OrderAsGiven ==
    Returned =>
        /\ order_arg.kind = "list" => RowGroups = order_arg.list
        /\ order_arg.kind = "none" =>
              /\ Range(RowGroups) = {r.group1 : r \in df_post_hoc} \cup {r.group2 : r \in df_post_hoc}
              /\ \A i, j \in DOMAIN cld : i < j => cld[i].Group < cld[j].Group

OrderAsGivenWitness ==
    /\ Returned
    /\ order_arg.kind = "list"
    /\ Len(cld) >= 3
    /\ cld[1].Group > cld[2].Group
    /\ cld[2].Group < cld[3].Group
    /\ \E r \in df_post_hoc : r.group1 \notin Range(order_arg.list)

\* the comparison set holds a record of the pair with p < alpha
Differ(g, h) == \E r \in RecordsOf(g, h) : r.p < alpha

\* C21: every compatibility set contains its starting group, its members
\* are pairwise not significantly different, and every group of the order
\* outside it is significantly different from one of its members.
SetsMaximal ==
    Returned =>
        \A i \in DOMAIN draft :
            /\ order[i] \in draft[i]
            /\ draft[i] \subseteq Range(order)
            /\ \A g, h \in draft[i] : ~Differ(g, h)
            /\ \A z \in Range(order) \ draft[i] : \E m \in draft[i] : Differ(m, z)

SetsMaximalWitness ==
    /\ Returned
    /\ Len(order) >= 4
    /\ \E i \in DOMAIN draft :
          /\ Cardinality(draft[i]) >= 2
          /\ order[Len(order)] \notin draft[i]
          /\ ~Differ(order[i], order[Len(order)])

\* C22 as stated: the set of the group at position i takes its members,
\* other than that group, only from the positions after i.
CandidatesLaterOnly ==
    Returned =>
        \A i \in DOMAIN draft : \A j \in DOMAIN order :
            (order[j] \in draft[i] /\ order[j] # order[i]) => j > i

\* the group at position j passes the test of the walk for the set of i
Admitted(i, j) ==
    /\ ~Differ(order[i], order[j])
    /\ \A k \in 1..(j - 1) : order[k] \in draft[i] => ~Differ(order[k], order[j])

\* C22 amended: the candidates are all the groups of the order, walked from
\* the first position: a group at any position, earlier or later than i,
\* is in the set of i exactly when it is the group of i or is not
\* significantly different from it and from the members walked before it.
CandidatesWholeOrder ==
    Returned =>
        \A i \in DOMAIN draft : \A j \in DOMAIN order :
            order[j] \in draft[i] <=> (order[j] = order[i] \/ Admitted(i, j))

CandidatesWholeOrderWitness ==
    /\ Returned
    /\ \E i \in DOMAIN draft : \E j \in 1..(i - 1) :
          /\ order[j] \in draft[i]
          /\ \E k \in 1..(i - 1) : order[k] \notin draft[i]

LetterIndex(l) == CHOOSE j \in DOMAIN letters : letters[j] = l

FirstSeen(s) == CHOOSE i \in DOMAIN draft : draft[i] = s /\ \A k \in 1..(i - 1) : draft[k] # s

\* C23: the distinct compatibility sets are kept once each in first-seen
\* order, the k-th of them has the k-th letter, and the letter string of a
\* group is the letters of the sets containing it in increasing order with
\* no repeats; the first group of the order carries 'a'.
LetterAssignment ==
    Returned =>
        /\ Range(sets) = Range(draft)
        /\ \A a, b \in DOMAIN sets : a < b =>
              (sets[a] # sets[b] /\ FirstSeen(sets[a]) < FirstSeen(sets[b]))
        /\ \A i \in DOMAIN cld :
              LET ls == cld[i].Letters
              IN  /\ {LetterIndex(ls[n]) : n \in DOMAIN ls}
                        = {j \in DOMAIN sets : cld[i].Group \in sets[j]}
                  /\ \A m, n \in DOMAIN ls :
                        m < n => LetterIndex(ls[m]) < LetterIndex(ls[n])
        /\ cld # << >> => (cld[1].Letters # << >> /\ cld[1].Letters[1] = "a")

LetterAssignmentWitness ==
    /\ Returned
    /\ Len(sets) >= 2
    /\ Len(sets) < Len(draft)
    /\ \E i \in DOMAIN cld : Len(cld[i].Letters) >= 2
    /\ \E i \in DOMAIN cld : cld[i].Letters[1] # "a"

Unrecorded(g) == \A r \in df_post_hoc : r.group1 # g /\ r.group2 # g

\* C30: a pair of groups of the order with no record in either direction
\* is treated as not significantly different, so a group of the order that
\* is in no record is in every compatibility set and carries every letter.
MissingPairCompatible ==
    Returned =>
        /\ \A g, h \in Range(order) :
              RecordsOf(g, h) = {} => ~is_significant(g, h, df_post_hoc, alpha)
        /\ \A g \in Range(order) :
              Unrecorded(g) =>
                  /\ \A i \in DOMAIN draft : g \in draft[i]
                  /\ \A k \in DOMAIN cld :
                        cld[k].Group = g =>
                            cld[k].Letters = [j \in DOMAIN sets |-> letters[j]]

MissingPairCompatibleWitness ==
    /\ Returned
    /\ Len(sets) >= 2
    /\ \E g \in Range(order) : Unrecorded(g)

Malformed(df) == \E r \in df : r.p \in {NaN, NotNumeric}

\* C15: when a record of the comparison set has a missing or non-numeric
\* p-value the call fails: it returns no CLD.
MalformedRejected ==
    Malformed(df_post_hoc) => (~Returned /\ cld = << >>)

(***************************************************************************)
(* The designs: FactorialDesign and SplitPlotDesign.                       *)
(*                                                                         *)
(* The regression fit, the ANOVA p-values and the post-hoc computation are *)
(* library code: the p-value of every interaction term (anova_p), whether  *)
(* the top-level fit succeeds (fit_ok) and which sub-analyses raise (fails)*)
(* are inputs.  A row of the data is the level of each factor.             *)
(***************************************************************************)
Levels == {1, 2}
TablePVals == {4, 5, 6}
PosthocNames == {"tukey", "TTest", "duncan"}

POSTHOC_TESTS == {"tukey", "ttest"}

\* test_name.lower()
Lower(name) == IF name = "TTest" THEN "ttest" ELSE name

\* PostHocLoader.create raises ValueError for a name that is not registered
CreateRaises(name) == Lower(name) \notin POSTHOC_TESTS

RECURSIVE Flatten(_)
Flatten(ss) == IF ss = << >> THEN << >> ELSE Head(ss) \o Flatten(Tail(ss))

\* the index sets of the interaction terms, in the order of the table:
\* by order of interaction, then as itertools.combinations lists them
TermBefore(I, J) ==
    \/ Cardinality(I) < Cardinality(J)
    \/ /\ Cardinality(I) = Cardinality(J)
       /\ I # J
       /\ LET D == (I \ J) \cup (J \ I)
          IN  (CHOOSE m \in D : \A x \in D : m <= x) \in I

RECURSIVE TermOrder(_)
TermOrder(S) ==
    IF S = {} THEN << >>
    ELSE LET I == CHOOSE X \in S : \A Y \in S \ {X} : TermBefore(X, Y)
         IN  << I >> \o TermOrder(S \ {I})

\* the interaction terms ("C(A):C(B)") of the table of the full cross of fs,
\* each as the sequence of its factors
Terms(fs) ==
    LET S == {I \in SUBSET (DOMAIN fs) : Cardinality(I) >= 2}
        T == TermOrder(S)
    IN  [k \in DOMAIN T |-> [j \in 1..Cardinality(T[k]) |-> fs[Sorted(T[k])[j]]]]

SignificantTopOnly(fs, pv, a) ==
    SelectSeq(Terms(fs), LAMBDA t : Len(t) = Len(fs) /\ pv[t] <= a)

\* run_anova: the local list terms, every combination of at most
\* max_interaction factors (main effects included)
TermsUpTo(fs, mi) ==
    LET S == {I \in SUBSET (DOMAIN fs) :
                 /\ Cardinality(I) >= 1
                 /\ mi.given => Cardinality(I) <= mi.k}
        T == TermOrder(S)
    IN  [k \in DOMAIN T |-> [j \in 1..Cardinality(T[k]) |-> fs[Sorted(T[k])[j]]]]

\* run_anova: the interaction terms in the index of the returned table; the
\* model is fitted on self._get_formula(), the list terms is not used
TableTerms(fs, mi) == Terms(fs)

\* significant_interactions: every term with ":" and PR(>F) <= alpha
SignificantInteractions(fs, pv, a) ==
    SelectSeq(Terms(fs), LAMBDA t : pv[t] <= a)

\* sorted(self.data[f].unique())
LevelsOf(d, f) == Sorted({r[f] : r \in d})

\* self.data[self.data[f2] == level]
Subset(d, f2, level) == {r \in d : r[f2] = level}

\* subset[f1].nunique()
NUnique(d, f1) == Cardinality({r[f1] : r \in d})

MainBranch(f) == [kind |-> "main", inner |-> f, outer |-> "-", level |-> 0]
InterBranch(f1, f2, l) == [kind |-> "inter", inner |-> f1, outer |-> f2, level |-> l]

\* f"{f1} within {f2}={level}"
KeyOf(b) == <<b.inner, b.outer, b.level>>

\* for factor in self.factors
MainBranches(fs) == [i \in DOMAIN fs |-> MainBranch(fs[i])]

\* for term ...: for f1 in factors: for f2 in others: for level in sorted(...)
TermBranches(t, d) ==
    Flatten([i \in DOMAIN t |->
        Flatten([j \in DOMAIN SelectSeq(t, LAMBDA f : f # t[i]) |->
            LET f2 == SelectSeq(t, LAMBDA f : f # t[i])[j]
                ls == LevelsOf(d, f2)
            IN  [k \in DOMAIN ls |-> InterBranch(t[i], f2, ls[k])]])])

FactorialUnfoldBranches(sig, d) ==
    Flatten([k \in DOMAIN sig |-> TermBranches(sig[k], d)])

\* split-plot: for level in sorted(self.data[self.main_plot].unique()),
\* the subplot within each level of the main plot
SplitPlotUnfoldBranches(fs, d) ==
    LET ls == LevelsOf(d, fs[1])
    IN  [k \in DOMAIN ls |-> InterBranch(fs[2], fs[1], ls[k])]

BranchesToRunBoth(des, fs, d, sig) ==
    MainBranches(fs) \o
        (IF sig = << >> THEN << >>
         ELSE IF des = "factorial" THEN FactorialUnfoldBranches(sig, d)
         ELSE SplitPlotUnfoldBranches(fs, d))

\* if not significant_interactions: the factors; else: the unfolding
BranchesToRun(des, fs, d, sig) ==
    IF sig = << >> THEN MainBranches(fs)
    ELSE IF des = "factorial" THEN FactorialUnfoldBranches(sig, d)
    ELSE SplitPlotUnfoldBranches(fs, d)

\* the guard of the factorial unfolding: if subset[f1].nunique() <= 1: continue
Insufficient(b, d) == NUnique(Subset(d, b.outer, b.level), b.inner) <= 1

NeverGuarded(des, b, d) == FALSE

Guarded(des, b, d) == des = "factorial" /\ b.kind = "inter" /\ Insufficient(b, d)

\* the stage at which the try block of a branch raises, "none" if it does not:
\* the sub-model fit, PostHocLoader.create, run_compact_letters_display
RaisesAt(b, name, fl) ==
    IF b.kind = "inter" /\ [branch |-> b, stage |-> "fit"] \in fl THEN "fit"
    ELSE IF CreateRaises(name) THEN "create"
    ELSE IF [branch |-> b, stage |-> "posthoc"] \in fl THEN "posthoc"
    ELSE "none"

\* the rows a branch analyses: subset for an unfolding branch, self.data for
\* a factor
CallData(b, d) == IF b.kind = "inter" THEN Subset(d, b.outer, b.level) ELSE d

\* the library calls a branch makes before it ends, each on the rows it is
\* given
CallsOf(b, name, fl, d) ==
    LET at == RaisesAt(b, name, fl)
        all == IF b.kind = "inter" THEN <<"fit", "create", "posthoc">>
               ELSE <<"create", "posthoc">>
        upto == IF at = "none" THEN Len(all)
                ELSE CHOOSE n \in DOMAIN all : all[n] = at
    IN  {[branch |-> b, call |-> all[n], rows |-> CallData(b, d)] : n \in 1..upto}

(***************************************************************************)
(* The inputs of unfold_interactions.                                      *)
(***************************************************************************)
FullCross(fs) == [Range(fs) -> Levels]

AllBranches(fs) ==
    {MainBranch(f) : f \in Range(fs)} \cup
    {InterBranch(f1, f2, l) : f1 \in Range(fs), f2 \in Range(fs), l \in Levels}

Failures(fs) ==
    {[branch |-> b, stage |-> st] : b \in {x \in AllBranches(fs) : x.inner # x.outer},
                                    st \in {"fit", "posthoc"}}
        \ {[branch |-> b, stage |-> "fit"] : b \in {MainBranch(f) : f \in Range(fs)}}

UnfoldStartState ==
    /\ upc = "start" /\ outcome = "none" /\ branches = << >> /\ idx = 1
    /\ result = [anova |-> FALSE, main_effects |-> {}, interactions |-> {}]
    /\ key = << >> /\ calls = {} /\ reports = {} /\ uerror = "none"
    /\ terms = << >> /\ table = << >>

\* two factors, factorial or split-plot (main plot, subplot)
InitTwoFactors ==
    /\ design \in {"factorial", "splitplot"}
    /\ factors = <<"A", "B">>
    /\ \E missing \in {m \in SUBSET FullCross(factors) : Cardinality(m) <= MaxMissing} :
          design_data = FullCross(factors) \ missing
    /\ anova_p \in [Range(Terms(factors)) -> TablePVals]
    /\ fit_ok \in BOOLEAN
    /\ posthoc \in PosthocNames
    /\ print_results \in BOOLEAN
    /\ fails \in {f \in SUBSET Failures(factors) : Cardinality(f) <= MaxFailures}
    /\ max_interaction = None

\* three factors, factorial
InitThreeFactors ==
    /\ design = "factorial"
    /\ factors = <<"A", "B", "C">>
    /\ \E missing \in {m \in SUBSET FullCross(factors) : Cardinality(m) <= MaxMissing} :
          design_data = FullCross(factors) \ missing
    /\ anova_p \in [Range(Terms(factors)) -> TablePVals]
    /\ fit_ok = TRUE
    /\ posthoc \in PosthocNames
    /\ print_results \in BOOLEAN
    /\ fails = {}
    /\ max_interaction = None

\* three factors, factorial, max_interaction=k
InitMaxInteraction ==
    /\ design = "factorial"
    /\ factors = <<"A", "B", "C">>
    /\ design_data = FullCross(factors)
    /\ anova_p \in [Range(Terms(factors)) -> TablePVals \ {DefaultAlpha}]
    /\ fit_ok = TRUE
    /\ posthoc = "tukey"
    /\ print_results = FALSE
    /\ fails = {}
    /\ max_interaction \in {[given |-> TRUE, k |-> n] : n \in 1..Len(factors)}

\* no call of assign_letters is under way
CLDIdle ==
    /\ pc = "idle" /\ df_post_hoc = {} /\ alpha = DefaultAlpha /\ order_arg = NoOrder
    /\ data = NoData /\ param = TRUE /\ order = << >> /\ draft = << >>
    /\ sets = << >> /\ cld = << >> /\ error = "none"

InitUnfold ==
    /\ CLDIdle
    /\ OthersIdle
    /\ UnfoldStartState
    /\ InitTwoFactors \/ InitThreeFactors \/ InitMaxInteraction

(***************************************************************************)
(* unfold_interactions: the top-level fit, then one step per branch.       *)
(***************************************************************************)
UnfoldInputs == <<design, factors, design_data, anova_p, fit_ok, posthoc,
                  print_results, fails, max_interaction>>

UnfoldFitRecovered ==
    /\ upc = "start"
    /\ ~fit_ok
    /\ branches' = MainBranches(factors)
    /\ outcome' = "main_effects"
    /\ upc' = "loop"
    /\ UNCHANGED <<UnfoldInputs, idx, result, key, calls, reports, uerror,
                   terms, table, cldvars, xvars>>

\* run_anova raises: the error leaves unfold_interactions
UnfoldFitRaises ==
    /\ upc = "start"
    /\ ~fit_ok
    /\ upc' = "raised"
    /\ uerror' = "FitError"
    /\ UNCHANGED <<UnfoldInputs, outcome, branches, idx, result, key, calls, reports,
                   terms, table, cldvars, xvars>>

\* run_anova, the result with its anova entry, the significant terms
UnfoldStart ==
    /\ upc = "start"
    /\ fit_ok
    /\ terms' = IF design = "factorial" THEN TermsUpTo(factors, max_interaction) ELSE << >>
    /\ table' = TableTerms(factors, max_interaction)
    /\ LET sig == SignificantInteractions(factors, anova_p, alpha)
       IN  /\ outcome' = IF sig = << >> THEN "main_effects" ELSE "unfolding"
           /\ branches' = BranchesToRun(design, factors, design_data, sig)
    /\ result' = [result EXCEPT !.anova = TRUE]
    /\ idx' = 1
    /\ upc' = "loop"
    /\ UNCHANGED <<UnfoldInputs, key, calls, reports, uerror, cldvars, xvars>>

Current == branches[idx]

InLoop == upc = "loop" /\ idx <= Len(branches)

\* fewer than 2 levels of the inner factor: continue
BranchSkipped ==
    /\ InLoop
    /\ Guarded(design, Current, design_data)
    /\ idx' = idx + 1
    /\ UNCHANGED <<UnfoldInputs, upc, outcome, branches, result, key, calls, reports,
                   uerror, terms, table, cldvars, xvars>>

\* the try block runs to its end: the branch is recorded
BranchSucceeds ==
    /\ InLoop
    /\ ~Guarded(design, Current, design_data)
    /\ RaisesAt(Current, posthoc, fails) = "none"
    /\ calls' = calls \cup CallsOf(Current, posthoc, fails, design_data)
    /\ result' = IF Current.kind = "main"
                 THEN [result EXCEPT !.main_effects = @ \cup {Current.inner}]
                 ELSE [result EXCEPT !.interactions = @ \cup {KeyOf(Current)}]
    /\ key' = IF Current.kind = "inter" THEN KeyOf(Current) ELSE key
    /\ idx' = idx + 1
    /\ UNCHANGED <<UnfoldInputs, upc, outcome, branches, reports, uerror, terms, table, cldvars, xvars>>

\* what the except block prints names: the factor (main effects), f1, f2 and
\* level (factorial unfolding), the local variable key (split-plot unfolding)
Named(des, b, k) ==
    IF b.kind = "main" THEN <<b.inner>>
    ELSE IF des = "factorial" THEN KeyOf(b)
    ELSE k

\* the try block raises and the except block ends normally
BranchFailsCaught ==
    /\ InLoop
    /\ ~Guarded(design, Current, design_data)
    /\ RaisesAt(Current, posthoc, fails) # "none"
    /\ ~print_results \/ Named(design, Current, key) # << >>
    /\ calls' = calls \cup CallsOf(Current, posthoc, fails, design_data)
    /\ reports' = IF print_results
                  THEN reports \cup {[named |-> Named(design, Current, key), branch |-> Current]}
                  ELSE reports
    /\ idx' = idx + 1
    /\ UNCHANGED <<UnfoldInputs, upc, outcome, branches, result, key, uerror, terms, table, cldvars, xvars>>

\* the try block raises and the except block prints key before any key was
\* bound: UnboundLocalError leaves unfold_interactions
BranchFailsUnbound ==
    /\ InLoop
    /\ ~Guarded(design, Current, design_data)
    /\ RaisesAt(Current, posthoc, fails) # "none"
    /\ print_results /\ Named(design, Current, key) = << >>
    /\ calls' = calls \cup CallsOf(Current, posthoc, fails, design_data)
    /\ upc' = "raised"
    /\ uerror' = "UnboundLocalError"
    /\ UNCHANGED <<UnfoldInputs, outcome, branches, idx, result, key, reports, terms, table, cldvars, xvars>>

UnfoldReturn ==
    /\ upc = "loop"
    /\ idx > Len(branches)
    /\ upc' = "returned"
    /\ UNCHANGED <<UnfoldInputs, outcome, branches, idx, result, key, calls, reports,
                   uerror, terms, table, cldvars, xvars>>

NextUnfold ==
    \/ UnfoldFitRaises
    \/ UnfoldStart
    \/ BranchSkipped
    \/ BranchSucceeds
    \/ BranchFailsCaught
    \/ BranchFailsUnbound
    \/ UnfoldReturn

SpecUnfold == InitUnfold /\ [][NextUnfold]_vars

(***************************************************************************)
(* Properties of unfold_interactions.                                      *)
(***************************************************************************)
UnfoldReturned == upc = "returned"

PastStart == upc \in {"loop", "returned"} \/ (upc = "raised" /\ uerror # "FitError")

MainPopulated == result.main_effects # {}

InteractionsPopulated == result.interactions # {}

NoTermSignificant == \A t \in Range(Terms(factors)) : anova_p[t] > alpha

\* the branch gets through its try block
Succeeds(b) ==
    ~Guarded(design, b, design_data) /\ RaisesAt(b, posthoc, fails) = "none"

TopTerm == Terms(factors)[Len(Terms(factors))]

\* C8 as stated: the highest-order interaction term alone selects the
\* outcome, whatever the p-values of the lower-order terms.
TopTermDecides ==
    PastStart =>
        /\ anova_p[TopTerm] > alpha =>
              (outcome = "main_effects" /\ ~InteractionsPopulated)
        /\ anova_p[TopTerm] <= alpha => outcome = "unfolding"

\* C8 amended: the main-effects outcome (post-hoc per factor on the full
\* data, no interaction child) is taken exactly when every interaction term
\* has p > alpha; any interaction term with p <= alpha, of whatever order,
\* selects the unfolding.
AnyTermDecides ==
    PastStart =>
        /\ outcome = "main_effects" <=> NoTermSignificant
        /\ outcome = "unfolding" <=> ~NoTermSignificant
        /\ outcome = "main_effects" =>
              /\ branches = MainBranches(factors)
              /\ ~InteractionsPopulated
              /\ \A c \in calls : c.branch.kind = "main"
        /\ outcome = "unfolding" =>
              /\ ~MainPopulated
              /\ \A c \in calls : c.branch.kind = "inter"

AnyTermDecidesWitness ==
    /\ UnfoldReturned
    /\ Len(factors) = 3
    /\ anova_p[TopTerm] > alpha
    /\ outcome = "unfolding"
    /\ InteractionsPopulated

\* C9: a branch whose subset has fewer than 2 distinct levels of the inner
\* factor is skipped without raising: no sub-ANOVA or post-hoc call is made
\* for it and its key is absent from the result.
InsufficientDataGuard ==
    /\ \A i \in DOMAIN branches :
          (branches[i].kind = "inter" /\ Insufficient(branches[i], design_data)) =>
              /\ \A c \in calls : c.branch # branches[i]
              /\ KeyOf(branches[i]) \notin result.interactions
    /\ (upc = "raised" /\ uerror # "FitError") => ~Insufficient(Current, design_data)

\* C10: whatever print_results, an exception raised in one branch never
\* leaves unfold_interactions, and the returned result holds every branch
\* that got through.
BranchFailureIsolation ==
    /\ upc = "raised" => uerror = "FitError"
    /\ UnfoldReturned =>
          \A i \in DOMAIN branches :
              Succeeds(branches[i]) =>
                  IF branches[i].kind = "main"
                  THEN branches[i].inner \in result.main_effects
                  ELSE KeyOf(branches[i]) \in result.interactions

\* C11: a call of unfold_interactions with a post-hoc name that is not
\* registered does not return a normal result.
UnregisteredNameSurfaces ==
    CreateRaises(posthoc) => ~UnfoldReturned

TermOrderOf(t) == Len(t)

\* C14: with max_interaction=k given, the table the call uses holds no
\* interaction term of order above k, and the unfolding acts on no
\* significant term of order above k (k=1: main effects only).
MaxInteractionBoundsTable ==
    (PastStart /\ max_interaction.given) =>
        /\ \A i \in DOMAIN table : TermOrderOf(table[i]) <= max_interaction.k
        /\ outcome = "unfolding" =>
              \E t \in Range(Terms(factors)) :
                  TermOrderOf(t) <= max_interaction.k /\ anova_p[t] <= alpha

\* C18: when the top-level fit raises, the error leaves unfold_interactions:
\* the call never returns, no result entry is made and no per-factor or
\* per-level branch is processed.
TopLevelFitPropagates ==
    ~fit_ok =>
        /\ upc \in {"start", "raised"}
        /\ upc = "raised" => uerror = "FitError"
        /\ ~result.anova /\ ~MainPopulated /\ ~InteractionsPopulated
        /\ branches = << >> /\ calls = {} /\ reports = {}

TopLevelFitPropagatesWitness ==
    /\ ~fit_ok
    /\ upc = "raised"
    /\ uerror = "FitError"
    /\ ~CreateRaises(posthoc)
    /\ fails = {}

\* the sub-analysis of f1 within f2=l raises
SubAnalysisFails(f1, f2, l) ==
    \/ CreateRaises(posthoc)
    \/ \E f \in fails : f.branch = InterBranch(f1, f2, l)

\* f1 within f2=l is a key that C24 describes
KeyExpected(f1, f2, l) ==
    /\ f1 # f2
    /\ \E t \in Range(Terms(factors)) :
          anova_p[t] <= alpha /\ {f1, f2} \subseteq Range(t)
    /\ \E r \in design_data : r[f2] = l
    /\ Cardinality({r[f1] : r \in {x \in design_data : x[f2] = l}}) >= 2
    /\ ~SubAnalysisFails(f1, f2, l)

UnfoldedKeys ==
    {<<q[1], q[2], q[3]>> :
        q \in {x \in Range(factors) \X Range(factors) \X Levels :
                  KeyExpected(x[1], x[2], x[3])}}

\* C24: with a significant interaction the interactions of the factorial
\* result are exactly the keys of inner within outer=level for the ordered
\* pairs of distinct factors of a significant term and the levels of outer
\* present whose subset has 2 or more inner levels and whose sub-analysis
\* succeeded; each child is computed only from the rows with outer = level,
\* and the levels of one outer factor are processed in sorted order.
FactorialUnfoldKeys ==
    (design = "factorial" /\ outcome = "unfolding") =>
        /\ UnfoldReturned => result.interactions = UnfoldedKeys
        /\ \A c \in calls :
              c.rows = {r \in design_data : r[c.branch.outer] = c.branch.level}
        /\ \A i \in DOMAIN branches : i < Len(branches) =>
              ((branches[i].inner = branches[i + 1].inner
                    /\ branches[i].outer = branches[i + 1].outer)
                  => branches[i].level < branches[i + 1].level)

FactorialUnfoldKeysWitness ==
    /\ design = "factorial"
    /\ UnfoldReturned
    /\ outcome = "unfolding"
    /\ InteractionsPopulated
    /\ \E i \in DOMAIN branches : Insufficient(branches[i], design_data)
    /\ \E i \in DOMAIN branches : \E f \in fails : f.branch = branches[i]
    /\ \E c \in calls : c.rows # design_data /\ c.call = "posthoc"

\* C26: an error report of a failed branch names the factor and the level
\* of the branch that failed.
ReportNamesFailedBranch ==
    \A rep \in reports :
        rep.named = (IF rep.branch.kind = "main" THEN <<rep.branch.inner>>
                     ELSE <<rep.branch.inner, rep.branch.outer, rep.branch.level>>)

\* the interaction keys FactorialDesign.unfold_interactions returns for the
\* factors, data, p-values, post-hoc name and failures of the state
FactorialKeys ==
    LET sig == SignificantInteractions(factors, anova_p, alpha)
        bs == FactorialUnfoldBranches(sig, design_data)
    IN  {KeyOf(bs[i]) : i \in {n \in DOMAIN bs :
            /\ ~Guarded("factorial", bs[n], design_data)
            /\ RaisesAt(bs[n], posthoc, fails) = "none"}}

\* C27: on a two-factor dataset with a significant interaction the
\* split-plot unfolding (main plot A, subplot B) returns the same set of
\* interaction keys as the factorial unfolding of (A, B).
SplitPlotKeysAsFactorial ==
    (design = "splitplot" /\ UnfoldReturned /\ outcome = "unfolding") =>
        result.interactions = FactorialKeys

(***************************************************************************)
(* The significance markers: ExperimentalDesign.anova,                     *)
(* FactorialDesign.run_anova and SplitPlotDesign.run_anova each define     *)
(* significance_marker.  Here a p-value is kept in units of 1e-7, so       *)
(* 0.0499999 is 499999 and 1.0 is 10000000; NaN is the undefined p-value.  *)
(***************************************************************************)
Near == 15

P001 == 10000
P01 == 100000
P05 == 500000

MarkerImpls == {"ExperimentalDesign", "FactorialDesign", "SplitPlotDesign"}

Window(t) == (t - Near)..(t + Near)

MarkerPVals == {0, 10000000, NaN} \cup Window(P001) \cup Window(P01) \cup Window(P05)

\* the marker returned for an undefined p-value
BlankOf(impl) == IF impl = "ExperimentalDesign" THEN " " ELSE ""

SignificanceMarkerNonStrict(impl, p) ==
    IF p # NaN /\ p <= P001 THEN "***"
    ELSE IF p # NaN /\ p <= P01 THEN "**"
    ELSE IF p # NaN /\ p <= P05 THEN "*"
    ELSE IF p = NaN THEN BlankOf(impl)
    ELSE "ns"

\* the if/elif chain: the three thresholds are tested before np.isnan
significance_marker(impl, p) ==
    IF Lt(p, P001) THEN "***"
    ELSE IF Lt(p, P01) THEN "**"
    ELSE IF Lt(p, P05) THEN "*"
    ELSE IF p = NaN THEN BlankOf(impl)
    ELSE "ns"

InitMarker ==
    /\ UnfoldIdle /\ CLDIdle /\ PosthocIdle /\ DesignsIdle
    /\ mk_impl \in MarkerImpls
    /\ mk_p \in MarkerPVals
    /\ mk_out = ""
    /\ mk_pc = "call"

Classify ==
    /\ mk_pc = "call"
    /\ mk_out' = significance_marker(mk_impl, mk_p)
    /\ mk_pc' = "return"
    /\ UNCHANGED <<mk_impl, mk_p, cldvars, uvars, phvars, dvars>>

NextMarker == Classify

SpecMarker == InitMarker /\ [][NextMarker]_vars

BlankMarkers == {"", " "}

\* C16: for every p in [0,1] and for the undefined p the marker is one of
\* '***', '**', '*', 'ns' and blank: undefined gives blank, p < 0.001 '***',
\* p < 0.01 '**', p < 0.05 '*', anything else 'ns', the boundaries strict.
ClassifierTotal ==
    mk_pc = "return" =>
        /\ mk_out \in {"***", "**", "*", "ns"} \cup BlankMarkers
        /\ mk_p = NaN => mk_out \in BlankMarkers
        /\ (mk_p # NaN /\ mk_p < P001) => mk_out = "***"
        /\ (mk_p >= P001 /\ mk_p < P01) => mk_out = "**"
        /\ (mk_p >= P01 /\ mk_p < P05) => mk_out = "*"
        /\ mk_p >= P05 => mk_out = "ns"

ClassifierTotalWitness ==
    /\ mk_pc = "return"
    /\ mk_p = P05
    /\ mk_out = "ns"
    /\ mk_impl = "FactorialDesign"

\* C29: the three implementations of significance_marker return the same
\* marker for every p-value, the undefined p-value included.
MarkersAgree ==
    mk_pc = "return" =>
        \A impl \in MarkerImpls : significance_marker(impl, mk_p) = mk_out

\* anova_table["Signif"] of a term of the design's table; the p-values of
\* the table are in hundredths
Signif(des, t) ==
    significance_marker(IF des = "factorial" THEN "FactorialDesign" ELSE "SplitPlotDesign",
                        anova_p[t] * (P05 \div DefaultAlpha))

\* C28: with alpha = 0.05 the unfolding decision agrees with the marker
\* column: every term treated as significant has a marker other than 'ns',
\* and a table whose interaction terms are all marked 'ns' or blank does
\* not trigger the unfolding, p = 0.05 included.
MarkerAgreesWithUnfolding ==
    (PastStart /\ alpha = DefaultAlpha) =>
        /\ \A t \in Range(SignificantInteractions(factors, anova_p, alpha)) :
              Signif(design, t) \notin {"ns"} \cup BlankMarkers
        /\ (\A t \in Range(table) : Signif(design, t) \in {"ns"} \cup BlankMarkers)
              => outcome # "unfolding"

(***************************************************************************)
(* The post-hoc strategies: PostHocLoader.create and PairwiseTTest.run.    *)
(* A strategy name is the sequence of its characters; a dataset is the     *)
(* sequence of the group levels of its rows.                               *)
(***************************************************************************)
MaxObs == 4

GroupLevels == {1, 2, 3}

UpperChars == <<"T", "U", "K", "E", "Y", "S", "D", "N", "C", "A">>
LowerChars == <<"t", "u", "k", "e", "y", "s", "d", "n", "c", "a">>

\* str.lower() on one character
LowerChar(c) ==
    IF \E i \in DOMAIN UpperChars : UpperChars[i] = c
    THEN LowerChars[CHOOSE i \in DOMAIN UpperChars : UpperChars[i] = c]
    ELSE c

LowerKeepsCase(name) == name

\* test_name.lower()
lower(name) == [i \in DOMAIN name |-> LowerChar(name[i])]

Tukey == <<"t", "u", "k", "e", "y">>
TTest == <<"t", "t", "e", "s", "t">>

\* POSTHOC_TESTS as a mapping from the name to the class
PosthocClasses == (Tukey :> "TukeyHSD") @@ (TTest :> "PairwiseTTest")

UpperChar(c) ==
    IF \E i \in DOMAIN LowerChars : LowerChars[i] = c
    THEN UpperChars[CHOOSE i \in DOMAIN LowerChars : LowerChars[i] = c]
    ELSE c

\* the name w written in any letter case
CaseVariants(w) ==
    {s \in [DOMAIN w -> Range(UpperChars) \cup Range(LowerChars)] :
        \A i \in DOMAIN w : s[i] \in {w[i], UpperChar(w[i])}}

\* names that are not registered
OtherNames ==
    { << >>,
      <<"d", "u", "n", "c", "a", "n">>,
      <<"t", "u", "k", "e">>,
      <<"t", "u", "k", "e", "y", " ">>,
      <<" ", "t", "t", "e", "s", "t">>,
      <<"t", "-", "t", "e", "s", "t">>,
      <<"T", "U", "K", "E", "Y", "H", "S", "D">>,
      <<"T", "T", "E", "S", "T", "S">> }

TestNames == CaseVariants(Tukey) \cup CaseVariants(TTest) \cup OtherNames

InitPosthoc ==
    /\ UnfoldIdle /\ CLDIdle /\ MarkerIdle /\ DesignsIdle
    /\ test_name \in TestNames
    /\ ph_data \in UNION {[1..n -> GroupLevels] : n \in 0..MaxObs}
    /\ ph_alpha \in Alphas
    /\ instance = NoInstance
    /\ ph_df = << >>
    /\ ph_error = "none"
    /\ ph_pc = "call"
    /\ ph_values = << >> /\ ph_dtype = "int" /\ ph_pvalue = << >> /\ ph_cld = << >>

PosthocInputs == <<test_name, ph_data, ph_alpha, ph_values, ph_dtype, ph_pvalue>>

\* the lowered name is not a key of POSTHOC_TESTS: ValueError
CreateUnsupported ==
    /\ ph_pc = "call"
    /\ lower(test_name) \notin DOMAIN PosthocClasses
    /\ ph_error' = "ValueError"
    /\ ph_pc' = "raise"
    /\ UNCHANGED <<PosthocInputs, instance, ph_df, ph_cld, cldvars, uvars, mvars, dvars>>

\* test_class(data=data, values_column=..., treatments_column=..., alpha=alpha)
Create ==
    /\ ph_pc = "call"
    /\ lower(test_name) \in DOMAIN PosthocClasses
    /\ instance' = [class |-> PosthocClasses[lower(test_name)],
                    data |-> ph_data,
                    values_column |-> "resp",
                    treatments_column |-> "trat",
                    alpha |-> ph_alpha]
    /\ ph_pc' = "created"
    /\ UNCHANGED <<PosthocInputs, ph_df, ph_error, ph_cld, cldvars, uvars, mvars, dvars>>

\* self.data[self.treatments_column].unique(): the levels in the order of
\* their first row
RECURSIVE Unique(_)
Unique(rows) ==
    IF rows = << >> THEN << >>
    ELSE LET init == Unique(SubSeq(rows, 1, Len(rows) - 1))
             last == rows[Len(rows)]
         IN  IF last \in Range(init) THEN init ELSE Append(init, last)

\* the positions (i, j) in the order itertools yields them
PositionBefore(x, y) == x[1] < y[1] \/ (x[1] = y[1] /\ x[2] < y[2])

RECURSIVE InOrder(_)
InOrder(S) ==
    IF S = {} THEN << >>
    ELSE LET m == CHOOSE x \in S : \A y \in S \ {x} : PositionBefore(x, y)
         IN  << m >> \o InOrder(S \ {m})

AllOrderedPairs(g) ==
    LET P == InOrder({x \in (DOMAIN g) \X (DOMAIN g) : x[1] # x[2]})
    IN  [k \in DOMAIN P |-> <<g[P[k][1]], g[P[k][2]]>>]

\* itertools.combinations(groups, 2)
Combinations2(g) ==
    LET P == InOrder({x \in (DOMAIN g) \X (DOMAIN g) : x[1] < x[2]})
    IN  [k \in DOMAIN P |-> <<g[P[k][1]], g[P[k][2]]>>]

\* PairwiseTTest.run: one record for each combination of two levels
TTestRun(rows) ==
    LET c == Combinations2(Unique(rows))
    IN  [k \in DOMAIN c |-> [group1 |-> c[k][1], group2 |-> c[k][2]]]

RunTTest ==
    /\ ph_pc = "created"
    /\ instance.class = "PairwiseTTest"
    /\ ph_df' = TTestRun(instance.data)
    /\ ph_pc' = "ran"
    /\ UNCHANGED <<PosthocInputs, instance, ph_error, ph_cld, cldvars, uvars, mvars, dvars>>

NextPosthoc == CreateUnsupported \/ Create \/ RunTTest

SpecPosthoc == InitPosthoc /\ [][NextPosthoc]_vars

SameIgnoringCase(s, w) ==
    /\ Len(s) = Len(w)
    /\ \A i \in DOMAIN s : s[i] = w[i] \/ s[i] = UpperChar(w[i])

BuiltAs(class) ==
    /\ ph_error = "none"
    /\ instance = [class |-> class, data |-> ph_data, values_column |-> "resp",
                   treatments_column |-> "trat", alpha |-> ph_alpha]

\* C17: 'tukey' in any letter case gives the Tukey strategy and 'ttest' in
\* any letter case the pairwise t-test strategy, each holding the given
\* data, columns and alpha; every other name fails with an error and no
\* strategy instance is created.
CreateByName ==
    ph_pc # "call" =>
        IF SameIgnoringCase(test_name, Tukey) THEN BuiltAs("TukeyHSD")
        ELSE IF SameIgnoringCase(test_name, TTest) THEN BuiltAs("PairwiseTTest")
        ELSE ph_pc = "raise" /\ ph_error = "ValueError" /\ instance = NoInstance

CreateByNameWitness ==
    /\ ph_pc = "created"
    /\ test_name = <<"T", "u", "K", "e", "Y">>
    /\ instance.class = "TukeyHSD"
    /\ Len(instance.data) = MaxObs

LevelsPresent == Range(ph_data)

RecordsFor(a, b) ==
    {k \in DOMAIN ph_df : {ph_df[k].group1, ph_df[k].group2} = {a, b}}

\* C19: the run returns exactly one record for each unordered pair of
\* distinct levels present in the data, n(n-1)/2 records for n levels: no
\* record pairs a level with itself and no pair appears in both directions.
OneRecordPerPair ==
    ph_pc = "ran" =>
        /\ 2 * Len(ph_df) = Cardinality(LevelsPresent) * (Cardinality(LevelsPresent) - 1)
        /\ \A k \in DOMAIN ph_df :
              /\ ph_df[k].group1 # ph_df[k].group2
              /\ {ph_df[k].group1, ph_df[k].group2} \subseteq LevelsPresent
        /\ \A a, b \in LevelsPresent : a # b => Cardinality(RecordsFor(a, b)) = 1

OneRecordPerPairWitness ==
    /\ ph_pc = "ran"
    /\ Cardinality(LevelsPresent) = 3
    /\ Len(ph_data) > Cardinality(LevelsPresent)
    /\ ph_df[1].group1 > ph_df[1].group2

(***************************************************************************)
(* run_compact_letters_display: the run of the strategy, assign_letters    *)
(* with order="descending" on the strategy's data, and the table of means  *)
(* and letters.  A label of the treatments column is its value together    *)
(* with its type: the number 1 and the string "1" are different labels.    *)
(***************************************************************************)
MaxUnits == 3

LabelTypes == {"str", "int"}
Responses == {0, 1}

Label(t, v) == [t |-> t, v |-> v]

\* .astype(str) on one label
astype_str(l) == [t |-> "str", v |-> l.v]

\* self.data[self.treatments_column]
TreatmentsColumn(rows, t) == [i \in DOMAIN rows |-> Label(t, rows[i])]

\* the groups of pairwise_tukeyhsd: the distinct strings in sorted order
GroupsUnique(col) ==
    LET u == Sorted({col[i].v : i \in DOMAIN col})
    IN  [k \in DOMAIN u |-> Label("str", u[k])]

\* TukeyHSD.run: the groups are the labels converted to strings
TukeyHSDRun(rows, t, pv) ==
    LET col == TreatmentsColumn(rows, t)
        c == Combinations2(GroupsUnique([i \in DOMAIN col |-> astype_str(col[i])]))
    IN  [k \in DOMAIN c |-> [group1 |-> c[k][1], group2 |-> c[k][2],
                              p |-> pv[{c[k][1].v, c[k][2].v}]]]

\* PairwiseTTest.run with the p-value of each pair: the groups are the
\* labels as the data holds them
PairwiseTTestRun(rows, t, pv) ==
    LET c == TTestRun(TreatmentsColumn(rows, t))
    IN  [k \in DOMAIN c |-> [group1 |-> c[k].group1, group2 |-> c[k].group2,
                              p |-> pv[{c[k].group1.v, c[k].group2.v}]]]

\* self.run()
RunOf(class, rows, t, pv) ==
    IF class = "TukeyHSD" THEN TukeyHSDRun(rows, t, pv) ELSE PairwiseTTestRun(rows, t, pv)

\* self.data as assign_letters reads it: the group and the value of each row
DataRows(rows, vals, t) ==
    [i \in DOMAIN rows |-> [grupo |-> Label(t, rows[i]), valor |-> vals[i]]]

\* pd.concat([means, cld_result], axis=1) sorted by Mean, descending: the
\* rows in the order final, each with the mean and the letters of its group
FinalResult(final, rows, cl) ==
    [k \in DOMAIN final |->
        [trat |-> final[k],
         Mean |-> GroupMean(rows, final[k]),
         Letters |-> (cl[CHOOSE i \in DOMAIN cl : cl[i].Group = final[k]]).Letters]]

\* the strategy is built from data with two treatments or more
InitLetters ==
    /\ UnfoldIdle /\ CLDIdle /\ MarkerIdle /\ DesignsIdle
    /\ test_name \in {Tukey, TTest}
    /\ ph_data \in UNION {[1..n -> GroupLevels] : n \in 2..MaxUnits}
    /\ Cardinality(Range(ph_data)) >= 2
    /\ ph_values \in [DOMAIN ph_data -> Responses]
    /\ ph_dtype \in LabelTypes
    /\ ph_pvalue \in [{S \in SUBSET Range(ph_data) : Cardinality(S) = 2} -> PVals \cup {NaN}]
    /\ ph_alpha \in Alphas
    /\ instance = NoInstance
    /\ ph_df = << >>
    /\ ph_cld = << >>
    /\ ph_error = "none"
    /\ ph_pc = "call"

RunCompactLettersDisplay ==
    /\ ph_pc = "created"
    /\ LET df == RunOf(instance.class, instance.data, ph_dtype, ph_pvalue)
           dat == [given |-> TRUE, rows |-> DataRows(instance.data, ph_values, ph_dtype)]
           desc == [kind |-> "descending", list |-> << >>]
       IN  /\ ph_df' = df
           /\ \E ord \in ResolveOrder(desc, Range(df), dat, TRUE) :
               \E final \in SortByStat(dat.rows, TRUE, FALSE) :
                 LET ss == Dedup(BuildDraft(ord, Range(df), instance.alpha), 1, << >>)
                 IN  ph_cld' = FinalResult(final, dat.rows, BuildCld(ord, ss))
    /\ ph_pc' = "letters"
    /\ UNCHANGED <<PosthocInputs, instance, ph_error, cldvars, uvars, mvars, dvars>>

NextLetters == Create \/ RunCompactLettersDisplay

SpecLetters == InitLetters /\ [][NextLetters]_vars

\* the label names the treatment v, as a number or as a string
Names(l, v) == l.v = v

\* C25: whichever the strategy and the type of the labels, two treatments
\* whose comparison in the result of run() has p < alpha share no letter in
\* the table of run_compact_letters_display.
LettersSoundEndToEnd ==
    ph_pc = "letters" =>
        \A k \in DOMAIN ph_df :
            (ph_df[k].p # NaN /\ ph_df[k].p < instance.alpha) =>
                \A i, j \in DOMAIN ph_cld :
                    (Names(ph_cld[i].trat, ph_df[k].group1.v)
                        /\ Names(ph_cld[j].trat, ph_df[k].group2.v))
                    => Range(ph_cld[i].Letters) \cap Range(ph_cld[j].Letters) = {}

(***************************************************************************)
(* Construction and use of the designs.  A dataset (a DataFrame object) is *)
(* a frame: its column names and a revision number standing for its cells. *)
(* frames[1] is the caller's dataset; a design refers to a frame by its    *)
(* position in frames, so two references to one position are one object.   *)
(***************************************************************************)
MaxOps == 2
MaxMuts == 1

\* the analyses that build a design from the caller's dataset
Analyses == <<"first", "second">>

DesignKinds == {"CRD", "RCBD", "LSD", "FactorialDesign", "SplitPlotDesign"}

Copying == {"FactorialDesign", "SplitPlotDesign"}

\* the datasets the caller holds
ColumnSets == { {"y", "C", "B"}, {"C"}, {"y", "C", "T", "I"} }

\* the names the caller passes: the response, two treatment or factor
\* names (treatment and block, factors, main plot and subplot), a block
CallArgs ==
    { [response |-> "y", names |-> <<"C", "B">>, block |-> ""],
      [response |-> "C", names |-> <<"C", "C">>, block |-> "C"],
      [response |-> "y", names |-> <<"T", "I">>, block |-> "C"],
      [response |-> "C", names |-> <<"y", "B">>, block |-> ""] }

\* self.data.rename(columns={old: new}, inplace=True)
Rename(cols, old, new) == (cols \ {old}) \cup {new}

\* FactorialDesign._safe_factor: the frame columns and the name returned
FactorialSafeFactor(cols, f) ==
    IF f \in {"C"} /\ f \in cols
    THEN [cols |-> Rename(cols, f, f \o "_"), name |-> f \o "_"]
    ELSE [cols |-> cols, name |-> f]

\* SplitPlotDesign._safe_factor
reserved == ("C" :> "C_") @@ ("T" :> "T_") @@ ("I" :> "I_")

SplitPlotSafeFactor(cols, f) ==
    IF f = "" THEN [cols |-> cols, name |-> f]
    ELSE IF f \in DOMAIN reserved
    THEN [cols |-> IF f \in cols THEN Rename(cols, f, reserved[f]) ELSE cols,
          name |-> reserved[f]]
    ELSE [cols |-> cols, name |-> f]

SafeFactor(kind, cols, f) ==
    IF kind = "FactorialDesign" THEN FactorialSafeFactor(cols, f)
    ELSE SplitPlotSafeFactor(cols, f)

\* the names sanitized one after the other on the same frame
RECURSIVE Sanitize(_, _, _, _)
Sanitize(kind, cols, fs, done) ==
    IF fs = << >> THEN [cols |-> cols, names |-> done]
    ELSE LET r == SafeFactor(kind, cols, Head(fs))
         IN  Sanitize(kind, r.cols, Tail(fs), Append(done, r.name))

\* the frame the design refers to: data.copy() or data itself
DataOf(kind) == IF kind \in Copying THEN Len(frames) + 1 ELSE 1

\* the design object after __init__
NewDesign(kind, args) ==
    LET s == IF kind = "FactorialDesign"
             THEN Sanitize(kind, frames[1].cols, args.names, << >>)
             ELSE IF kind = "SplitPlotDesign"
             THEN Sanitize(kind, frames[1].cols, Append(args.names, args.block), << >>)
             ELSE [cols |-> frames[1].cols, names |-> Append(args.names, args.block)]
    IN  [kind |-> kind,
         data |-> DataOf(kind),
         cols |-> s.cols,
         response |-> args.response,
         names |-> IF kind = "FactorialDesign" THEN s.names ELSE SubSeq(s.names, 1, 2),
         block |-> IF kind = "FactorialDesign" THEN "" ELSE s.names[3],
         given |-> args,
         input_cols |-> frames[1].cols]

InitDesigns ==
    /\ UnfoldIdle /\ CLDIdle /\ MarkerIdle /\ PosthocIdle
    /\ frames \in {<<[cols |-> c, rev |-> 0]>> : c \in ColumnSets}
    /\ designs = << >>
    /\ oplog = << >>
    /\ nmut = 0

\* Design(data, response, ...): the constructor
Construct ==
    /\ Len(designs) < Len(Analyses)
    /\ oplog = << >>
    /\ \E kind \in DesignKinds, args \in CallArgs :
          LET d == NewDesign(kind, args)
          IN  /\ frames' = IF d.data > Len(frames)
                           THEN Append(frames, [cols |-> d.cols, rev |-> frames[1].rev])
                           ELSE frames
              /\ designs' = Append(designs, [x \in DOMAIN d \ {"cols"} |-> d[x]])
    /\ UNCHANGED <<oplog, nmut, cldvars, uvars, mvars, phvars>>

\* the caller writes into its own dataset
CallerMutates ==
    /\ nmut < MaxMuts
    /\ frames' = [frames EXCEPT ![1].rev = @ + 1]
    /\ nmut' = nmut + 1
    /\ UNCHANGED <<designs, oplog, cldvars, uvars, mvars, phvars>>

\* something writes into design.data
DesignMutates ==
    /\ nmut < MaxMuts
    /\ \E i \in DOMAIN designs :
          frames' = [frames EXCEPT ![designs[i].data].rev = @ + 1]
    /\ nmut' = nmut + 1
    /\ UNCHANGED <<designs, oplog, cldvars, uvars, mvars, phvars>>

\* the column names of the model formula (_get_formula)
FormulaNames(d) ==
    IF d.kind = "CRD" THEN <<d.response, d.names[1]>>
    ELSE IF d.kind = "RCBD" THEN <<d.response, d.names[1], d.names[2]>>
    ELSE IF d.kind = "LSD" THEN <<d.response, d.names[1], d.names[2], d.block>>
    ELSE IF d.block = "" THEN <<d.response>> \o d.names
    ELSE <<d.response, d.block>> \o d.names

\* smf.ols(formula, data=self.data).fit() and anova_lm: a function of the
\* formula and of the dataset; it raises when the formula names no column
FitTable(d) ==
    IF Range(FormulaNames(d)) \subseteq frames[d.data].cols
    THEN [ok |-> TRUE, formula |-> FormulaNames(d), data |-> frames[d.data]]
    ELSE [ok |-> FALSE, formula |-> FormulaNames(d), data |-> frames[d.data]]

\* the operations logged are those of one design, the one under analysis
Subject(i) == IF oplog = << >> THEN TRUE ELSE oplog[1].design = i

RunMarksData(i, op) ==
    /\ Len(oplog) < MaxOps
    /\ Subject(i)
    /\ oplog' = Append(oplog, [design |-> i, op |-> op, nmut |-> nmut,
                               table |-> FitTable(designs[i])])
    /\ frames' = [frames EXCEPT ![designs[i].data].cols = @ \cup {"Signif"}]
    /\ UNCHANGED <<designs, nmut, cldvars, uvars, mvars, phvars>>

\* an operation on design i: it fits the model and returns a new table
Run(i, op) ==
    /\ Len(oplog) < MaxOps
    /\ Subject(i)
    /\ oplog' = Append(oplog, [design |-> i, op |-> op, nmut |-> nmut,
                               table |-> FitTable(designs[i])])
    /\ UNCHANGED <<frames, designs, nmut, cldvars, uvars, mvars, phvars>>

\* anova() / run_anova()
FitAnova == \E i \in DOMAIN designs : Run(i, "anova")

CheckAssumptions == \E i \in DOMAIN designs : Run(i, "check_assumptions")

UnfoldInteractions ==
    \E i \in DOMAIN designs : designs[i].kind \in Copying /\ Run(i, "unfold_interactions")

NextDesigns ==
    \/ Construct
    \/ CallerMutates
    \/ DesignMutates
    \/ FitAnova
    \/ CheckAssumptions
    \/ UnfoldInteractions

SpecDesigns == InitDesigns /\ [][NextDesigns]_vars

FrameOf(i) == frames[designs[i].data]

\* C12: for every design type the design holds a private copy: a step that
\* changes the caller's dataset changes the dataset of no design, and a step
\* that changes the dataset of a design changes neither the caller's
\* dataset nor the dataset of another design.
CopyOnConstruct ==
    [][ \A i \in DOMAIN designs :
            /\ frames'[1] # frames[1] => frames'[designs[i].data] = FrameOf(i)
            /\ frames'[designs[i].data] # FrameOf(i) =>
                  /\ frames'[1] = frames[1]
                  /\ \A j \in DOMAIN designs \ {i} :
                        frames'[designs[j].data] = FrameOf(j) ]_vars

\* the token both _safe_factor implementations reserve: the name of the
\* C(...) wrapper every formula uses
TokensReserved == {"C"}

\* the names the design uses, each with the name the caller gave for it
UsedNames(d) ==
    {<<d.response, d.given.response>>}
        \cup {<<d.names[k], d.given.names[k]>> : k \in DOMAIN d.names}
        \cup (IF d.kind = "SplitPlotDesign" /\ d.given.block # ""
              THEN {<<d.block, d.given.block>>} ELSE {})

\* C13: in a factorial or split-plot design every name used (response,
\* factors, main plot, subplot, block) whose given name was a column of the
\* input is not a reserved token and is a column of the design's data.
NamesSanitized ==
    \A i \in DOMAIN designs :
        designs[i].kind \in Copying =>
            \A u \in UsedNames(designs[i]) :
                u[2] \in designs[i].input_cols =>
                    /\ u[1] \notin TokensReserved
                    /\ u[1] \in FrameOf(i).cols

====
